---- MODULE Spec2Model ----
(***************************************************************************)
(* Notification feed: the client-side feed store (NotificationsProvider)   *)
(* and the notification repository (NotificationRepository).               *)
(*                                                                         *)
(* The feed store is a React function component.  Every render creates new *)
(* closures over that render's `notifications` state object; the Maps      *)
(* `page`, `hasNextPage` and `refetchTimeout` are mutated in place and are *)
(* therefore one object shared by all renders.  An operation that awaits a *)
(* remote call resumes with the `notifications` object of the render it    *)
(* was called from, so the model keeps the objects that are still          *)
(* referenced (`heap`), the one the latest render holds (`cur`) and, for   *)
(* every call in flight and every pending timer, the object it captured.   *)
(***************************************************************************)
EXTENDS Integers, Sequences, FiniteSets, TLC

\* ------------------------------------------------------------------ bounds
MaxOps == 3         \* operations of the store that callers start in one behaviour

\* ------------------------------------------------------- program constants
PageSize == 10      \* `newNotifications?.length < 10`

\* ------------------------------------------------------------ input domains
Stores     == {"default_store", "feed_a"}
MessageIds == {"m1", "m2"}
ButtonTypes == {"primary", "secondary"}
Statuses   == {"pending", "done"}
DONE       == "done"

\* --------------------------------------------------------------- JS Map/object
\* Map.prototype.set / property assignment on a partial map
MapSet(m, k, v) == [x \in (DOMAIN m) \cup {k} |-> IF x = k THEN v ELSE m[x]]
\* mutant: Map.prototype.has(k) in place of the truthiness of get(k)
GetTruthy_Has(m, k) == k \in DOMAIN m
\* truthiness of Map.prototype.get(k): a missing key gives undefined
GetTruthy(m, k) == k \in DOMAIN m /\ m[k] = TRUE
EmptyMap == [x \in {} |-> 0]

\* ------------------------------------------------------------------ messages
\* A message object: `oid` is the identity of the JS object, `at` is the place
\* of the message in the remote feed (the page asked for and the index in it),
\* the other fields are IMessage's _id, seen, read (possibly undefined) and
\* cta.action.status.
ReadCycle == <<"undefined", "true", "false">>
IdCycle   == <<"m1", "m2">>
OidBase(callId) == callId * 16
RemoteMessage(callId, pageToFetch, i) ==
    [oid    |-> OidBase(callId) + i,
     at     |-> pageToFetch * PageSize + i,
     _id    |-> IdCycle[(((i - 1) \div 2) % 2) + 1],
     seen   |-> (i % 2 = 0),
     read   |-> ReadCycle[((i - 1) % 3) + 1],
     status |-> "pending"]
\* The lengths of the lists the remote getNotificationsList may answer with:
\* an empty page, a short page and a full page.
ResponseLengths == {0, 3, PageSize}
Response(callId, pageToFetch, n) ==
    [i \in 1..n |-> RemoteMessage(callId, pageToFetch, i)]

Range(f) == {f[i] : i \in DOMAIN f}

VARIABLES
    heap,            \* the `notifications` objects still referenced: id -> (store -> list)
    cur,             \* id of the object the latest render's closures hold
    page,            \* Map<string, number>
    hasNextPage,     \* Map<string, boolean>
    fetching,        \* boolean
    refetchTimeout,  \* Map<string, Timeout | null>; 0 stands for null
    timers,          \* timers set and neither fired nor cleared
    inflight,        \* remote calls awaiting their answer
    nCalls,          \* remote calls issued so far (gives call ids)
    nTimers,         \* timers created so far (gives timer handles)
    nOps,            \* operations started so far that called the remote side or set a timer
    last,            \* what the latest step did
    db,              \* the notification collection
    result,          \* what the latest repository query returned
    feed             \* the number of messages of the subscriber's remote feed

clientVars == <<heap, cur, page, hasNextPage, fetching, refetchTimeout, timers,
                inflight, nCalls, nTimers, nOps, last>>
repoVars == <<db, result, feed>>
vars == <<heap, cur, page, hasNextPage, fetching, refetchTimeout, timers,
          inflight, nCalls, nTimers, nOps, last, db, result, feed>>

\* A remote call: the api method, the operation that made it, whether that
\* operation's promise is still pending on it (`awaited`), the `notifications`
\* object its continuation closes over (`cap`) and the arguments.
NoCall == [id |-> 0, api |-> "none", origin |-> "none", awaited |-> FALSE,
           storeId |-> "none", pageToFetch |-> 0, isRefetch |-> FALSE, cap |-> 0,
           messageId |-> "none", status |-> "none",
           readExist |-> FALSE, explicit |-> "none", ids |-> <<>>]

\* What a step did: the operation it belongs to, the kind of step, the state of
\* the promise returned to the operation's caller, the remote call issued or
\* answered, and the length of the list a fetch answered with.
Event(op, storeId, step, promise, call, n) ==
    [op |-> op, storeId |-> storeId, step |-> step, promise |-> promise,
     call |-> call, n |-> n]

NoResult == [op |-> "none"]

\* ----------------------------------------------------------------- the heap
Referenced(c, calls, tms) == {c} \cup {x.cap : x \in calls} \cup {t.cap : t \in tms}
\* Object.assign({}, notifications): a new object, named by the least free id
FreshObj(refs) == CHOOSE n \in 0..(MaxOps + 1) :
                      n \notin refs /\ \A m \in 0..(n - 1) : m \in refs
Collect(h, refs) == [v \in (DOMAIN h) \cap refs |-> h[v]]

InitClient ==
    /\ heap = [v \in {0} |-> [s \in {"default_store"} |-> <<>>]]
    /\ cur = 0
    /\ page = [s \in {"default_store"} |-> 0]
    /\ hasNextPage = [s \in {"default_store"} |-> TRUE]
    /\ fetching = FALSE
    /\ refetchTimeout = EmptyMap
    /\ timers = {}
    /\ inflight = {}
    /\ nCalls = 0
    /\ nTimers = 0
    /\ nOps = 0
    /\ last = Event("init", "none", "none", "none", NoCall, 0)

\* the feed store alone: the collection stays empty
InitRepo ==
    /\ db = {}
    /\ result = NoResult
    /\ feed = 0

\* the bound on the operations of one behaviour
CanStart == nOps < MaxOps

\* ------------------------------------------------------------------ fetchPage
\* fetchPage up to its await: setFetching(true) and the remote call
FetchPageCall(origin, awaited, pageToFetch, isRefetch, storeId, cap) ==
    [NoCall EXCEPT !.id = nCalls + 1, !.api = "getNotificationsList", !.origin = origin,
                   !.awaited = awaited, !.storeId = storeId, !.pageToFetch = pageToFetch,
                   !.isRefetch = isRefetch, !.cap = cap]

\* the has-more flag fetchPage stores for a result of length n
HasMoreAfter(n) == ~(n < PageSize)

\* the list fetchPage stores for the store, from the captured object
ListAfterFetch(obj, storeId, isRefetch, new) ==
    IF isRefetch THEN new
    ELSE (IF storeId \in DOMAIN obj THEN obj[storeId] ELSE <<>>) \o new

\* fetchPage after its await, the remote call having answered with n messages
FetchPageResolved(c, n) ==
    LET new   == Response(c.id, c.pageToFetch, n)
        obj   == heap[c.cap]
        obj2  == MapSet(obj, c.storeId, ListAfterFetch(obj, c.storeId, c.isRefetch, new))
        rest  == inflight \ {c}
        refs  == {x.cap : x \in rest} \cup {t.cap : t \in timers}
        fresh == FreshObj(refs)
        h2    == [heap EXCEPT ![c.cap] = obj2]
    IN  /\ hasNextPage' = MapSet(hasNextPage, c.storeId, HasMoreAfter(n))
        /\ page' = IF c.storeId \in DOMAIN page THEN page ELSE MapSet(page, c.storeId, 0)
        /\ heap' = [v \in ((DOMAIN h2) \cap refs) \cup {fresh} |->
                       IF v = fresh THEN obj2 ELSE h2[v]]
        /\ cur' = fresh
        /\ fetching' = FALSE
        /\ inflight' = rest
        /\ last' = Event(c.origin, c.storeId, "ok", "resolved", c, n)
        /\ UNCHANGED <<refetchTimeout, timers, nCalls, nTimers, nOps>>

\* the remote call failed: the await throws and nothing after it runs
RemoteRejected(c) ==
    /\ inflight' = inflight \ {c}
    /\ heap' = Collect(heap, Referenced(cur, inflight \ {c}, timers))
    /\ last' = Event(c.origin, c.storeId, "fail",
                     IF c.awaited THEN "rejected" ELSE "resolved", c, 0)
    /\ UNCHANGED <<cur, page, hasNextPage, fetching, refetchTimeout, timers, nCalls, nTimers, nOps>>

FetchPageDone ==
    \E c \in inflight :
        /\ c.api = "getNotificationsList"
        /\ \/ \E n \in ResponseLengths : FetchPageResolved(c, n)
           \/ RemoteRejected(c)
        /\ UNCHANGED repoVars

\* -------------------------------------------------------------- fetchNextPage
\* mutant: a store id without entries is taken as page 0 with has-more true
FetchNextPage_Defaulting ==
    \E storeId \in Stores :
        /\ IF storeId \in DOMAIN hasNextPage /\ hasNextPage[storeId] = FALSE
           THEN /\ last' = Event("fetchNextPage", storeId, "return", "resolved", NoCall, 0)
                /\ UNCHANGED <<heap, cur, page, hasNextPage, fetching, refetchTimeout,
                               timers, inflight, nCalls, nTimers, nOps>>
           ELSE LET nextPage == (IF storeId \in DOMAIN page THEN page[storeId] ELSE 0) + 1
                    c == FetchPageCall("fetchNextPage", TRUE, nextPage, FALSE, storeId, cur)
                IN  /\ CanStart
                    /\ page' = MapSet(page, storeId, nextPage)
                    /\ fetching' = TRUE
                    /\ inflight' = inflight \cup {c}
                    /\ nCalls' = nCalls + 1
                    /\ nOps' = nOps + 1
                    /\ last' = Event("fetchNextPage", storeId, "call", "pending", c, 0)
                    /\ UNCHANGED <<heap, cur, hasNextPage, refetchTimeout, timers, nTimers>>
        /\ UNCHANGED repoVars

FetchNextPage ==
    \E storeId \in Stores :
        /\ IF ~GetTruthy(hasNextPage, storeId)
           THEN /\ last' = Event("fetchNextPage", storeId, "return", "resolved", NoCall, 0)
                /\ UNCHANGED <<heap, cur, page, hasNextPage, fetching, refetchTimeout,
                               timers, inflight, nCalls, nTimers, nOps>>
           ELSE LET nextPage == page[storeId] + 1
                    c == FetchPageCall("fetchNextPage", TRUE, nextPage, FALSE, storeId, cur)
                IN  /\ CanStart
                    /\ page' = MapSet(page, storeId, nextPage)
                    /\ fetching' = TRUE
                    /\ inflight' = inflight \cup {c}
                    /\ nCalls' = nCalls + 1
                    /\ nOps' = nOps + 1
                    /\ last' = Event("fetchNextPage", storeId, "call", "pending", c, 0)
                    /\ UNCHANGED <<heap, cur, hasNextPage, refetchTimeout, timers, nTimers>>
        /\ UNCHANGED repoVars


\* ------------------------------------------------------------------- refetch
\* mutant: the earlier timer is not cleared
ClearTimeout_Kept(tms, handle) == tms
\* clearTimeout(handle): a handle that already fired, or null, clears nothing
ClearTimeout(tms, handle) == {t \in tms : t.handle # handle}

\* mutant: refetch clears the pending timers of every store
Refetch_ClearsAll ==
    \E storeId \in Stores :
        LET handle  == nTimers + 1
            t       == [handle |-> handle, storeId |-> storeId, cap |-> cur]
        IN  /\ CanStart
            /\ fetching' = TRUE
            /\ timers' = {t}
            /\ refetchTimeout' = MapSet(refetchTimeout, storeId, handle)
            /\ nTimers' = nTimers + 1
            /\ nOps' = nOps + 1
            /\ heap' = Collect(heap, Referenced(cur, inflight, timers'))
            /\ last' = Event("refetch", storeId, "return", "resolved", NoCall, 0)
            /\ UNCHANGED <<cur, page, hasNextPage, inflight, nCalls>>
            /\ UNCHANGED repoVars

Refetch ==
    \E storeId \in Stores :
        LET old     == IF storeId \in DOMAIN refetchTimeout THEN refetchTimeout[storeId] ELSE 0
            cleared == IF old # 0 THEN ClearTimeout(timers, old) ELSE timers
            handle  == nTimers + 1
            t       == [handle |-> handle, storeId |-> storeId, cap |-> cur]
        IN  /\ CanStart
            /\ fetching' = TRUE
            /\ timers' = cleared \cup {t}
            /\ refetchTimeout' = MapSet(refetchTimeout, storeId, handle)
            /\ nTimers' = nTimers + 1
            /\ nOps' = nOps + 1
            /\ heap' = Collect(heap, Referenced(cur, inflight, timers'))
            /\ last' = Event("refetch", storeId, "return", "resolved", NoCall, 0)
            /\ UNCHANGED <<cur, page, hasNextPage, inflight, nCalls>>
            /\ UNCHANGED repoVars

\* the 250 ms timer fires: its callback runs fetchPage(0, true, storeId) up to the await
TimerFire ==
    \E t \in timers :
        \* refetch returned when it set the timer: nothing awaits the callback
        LET c == FetchPageCall("refetch", FALSE, 0, TRUE, t.storeId, t.cap)
        IN  /\ timers' = timers \ {t}
            /\ fetching' = TRUE
            /\ inflight' = inflight \cup {c}
            /\ nCalls' = nCalls + 1
            /\ last' = Event("refetch", t.storeId, "fire", "resolved", c, 0)
            /\ UNCHANGED <<heap, cur, page, hasNextPage, refetchTimeout, nTimers, nOps>>
            /\ UNCHANGED repoVars

\* ---------------------------------------------------------------- markAsRead
MarkAsRead ==
    \E messageId \in MessageIds :
        LET c == [NoCall EXCEPT !.id = nCalls + 1, !.api = "markMessageAsRead",
                                !.origin = "markAsRead", !.awaited = TRUE, !.cap = cur,
                                !.messageId = messageId]
        IN  /\ CanStart
            /\ inflight' = inflight \cup {c}
            /\ nCalls' = nCalls + 1
            /\ nOps' = nOps + 1
            /\ last' = Event("markAsRead", "none", "call", "pending", c, 0)
            /\ UNCHANGED <<heap, cur, page, hasNextPage, fetching, refetchTimeout, timers, nTimers>>
            /\ UNCHANGED repoVars

\* mutant: the answer is patched into the messages held locally
RemoteResolvedOnly_Patching(c) ==
    /\ inflight' = inflight \ {c}
    /\ heap' = [v \in (DOMAIN heap) \cap Referenced(cur, inflight \ {c}, timers) |->
                   [s \in DOMAIN heap[v] |->
                       [i \in DOMAIN heap[v][s] |->
                           IF heap[v][s][i]._id = c.messageId
                           THEN [heap[v][s][i] EXCEPT !.read = "true"]
                           ELSE IF heap[v][s][i]._id \in Range(c.ids)
                           THEN [heap[v][s][i] EXCEPT !.seen = TRUE]
                           ELSE heap[v][s][i]]]]
    /\ last' = Event(c.origin, c.storeId, "ok", "resolved", c, 0)
    /\ UNCHANGED <<cur, page, hasNextPage, fetching, refetchTimeout, timers, nCalls, nTimers, nOps>>

\* the remote call answered: the operation returns the answer and touches no state
RemoteResolvedOnly(c) ==
    /\ inflight' = inflight \ {c}
    /\ heap' = Collect(heap, Referenced(cur, inflight \ {c}, timers))
    /\ last' = Event(c.origin, c.storeId, "ok", "resolved", c, 0)
    /\ UNCHANGED <<cur, page, hasNextPage, fetching, refetchTimeout, timers, nCalls, nTimers, nOps>>

MarkAsReadDone ==
    \E c \in inflight :
        /\ c.api = "markMessageAsRead"
        /\ \/ RemoteResolvedOnly(c)
           \/ RemoteRejected(c)
        /\ UNCHANGED repoVars

\* -------------------------------------------------------------- updateAction
UpdateAction ==
    \E messageId \in MessageIds, actionButtonType \in ButtonTypes, status \in Statuses :
        LET c == [NoCall EXCEPT !.id = nCalls + 1, !.api = "updateAction",
                                !.origin = "updateAction", !.awaited = TRUE, !.cap = cur,
                                !.messageId = messageId, !.status = status]
        IN  /\ CanStart
            /\ inflight' = inflight \cup {c}
            /\ nCalls' = nCalls + 1
            /\ nOps' = nOps + 1
            /\ last' = Event("updateAction", "none", "call", "pending", c, 0)
            /\ UNCHANGED <<heap, cur, page, hasNextPage, fetching, refetchTimeout, timers, nTimers>>
            /\ UNCHANGED repoVars

\* the status the map callback stores in a matching message
PatchedStatus(status) == DONE

\* the message objects the loop over the captured object writes to
MatchingOids(obj, messageId) ==
    {m.oid : m \in UNION {Range(obj[s]) : s \in DOMAIN obj}} \cap
    {m.oid : m \in {x \in UNION {Range(obj[s]) : s \in DOMAIN obj} : x._id = messageId}}

\* a list as it reads once the objects in `oids` have had their status written
Patched(list, oids, status) ==
    [i \in DOMAIN list |->
        IF list[i].oid \in oids THEN [list[i] EXCEPT !.status = PatchedStatus(status)]
        ELSE list[i]]

UpdateActionResolved(c) ==
    LET oids  == MatchingOids(heap[c.cap], c.messageId)
        h2    == [v \in DOMAIN heap |->
                     [s \in DOMAIN heap[v] |-> Patched(heap[v][s], oids, c.status)]]
        rest  == inflight \ {c}
        refs  == {x.cap : x \in rest} \cup {t.cap : t \in timers}
        fresh == FreshObj(refs)
    IN  /\ heap' = [v \in ((DOMAIN h2) \cap refs) \cup {fresh} |->
                       IF v = fresh THEN h2[c.cap] ELSE h2[v]]
        /\ cur' = fresh
        /\ inflight' = rest
        /\ last' = Event("updateAction", "none", "ok", "resolved", c, 0)
        /\ UNCHANGED <<page, hasNextPage, fetching, refetchTimeout, timers, nCalls, nTimers, nOps>>

\* mutant: the messages are patched before the remote call's outcome is known
UpdateActionDone_PatchingFirst ==
    \E c \in inflight :
        /\ c.api = "updateAction"
        /\ \/ UpdateActionResolved(c)
           \/ LET oids == MatchingOids(heap[c.cap], c.messageId)
                  h2   == [v \in DOMAIN heap |->
                              [s \in DOMAIN heap[v] |-> Patched(heap[v][s], oids, c.status)]]
              IN  /\ inflight' = inflight \ {c}
                  /\ heap' = Collect(h2, Referenced(cur, inflight \ {c}, timers))
                  /\ last' = Event(c.origin, c.storeId, "fail", "rejected", c, 0)
                  /\ UNCHANGED <<cur, page, hasNextPage, fetching, refetchTimeout,
                                 timers, nCalls, nTimers, nOps>>
        /\ UNCHANGED repoVars

UpdateActionDone ==
    \E c \in inflight :
        /\ c.api = "updateAction"
        /\ \/ UpdateActionResolved(c)
           \/ RemoteRejected(c)
        /\ UNCHANGED repoVars

\* --------------------------------------------------- markNotificationsAsSeen
\* messagesToMark as the caller passes it: undefined, one message, or an array
ExplicitMessages ==
    {[kind |-> "undefined", msgs |-> <<>>],
     [kind |-> "single",    msgs |-> <<RemoteMessage(0, 0, 1)>>],
     [kind |-> "array",     msgs |-> <<RemoteMessage(0, 0, 2), RemoteMessage(0, 0, 3)>>]}

\* mutant: the filter keeps every notification
Unseen_All(notification) == TRUE
\* the filter callback of getNotificationsToMark
Unseen(notification) == ~notification.seen

\* getNotificationsToMark, for a store the object has a list for
getNotificationsToMark(messagesToMark, notifications, storeId) ==
    IF messagesToMark.kind # "undefined" THEN messagesToMark.msgs
    ELSE SelectSeq(notifications[storeId], Unseen)

ReadDefined(msg) == msg.read # "undefined"

filterReadNotifications(readExist, notificationsToMark) ==
    IF readExist THEN SelectSeq(notificationsToMark, ReadDefined) ELSE notificationsToMark

MapIds(list) == [i \in DOMAIN list |-> list[i]._id]

\* mutant: a store without a list is read as an empty list
MarkNotificationsAsSeen_Guarded ==
    \E readExist \in BOOLEAN, messagesToMark \in ExplicitMessages, storeId \in Stores :
        \* explicit messages come with the default store id, which is then not read
        /\ messagesToMark.kind # "undefined" => storeId = "default_store"
        /\ IF FALSE
           THEN \* notifications[storeId] is undefined: .filter throws a TypeError
                /\ last' = Event("markNotificationsAsSeen", storeId, "throw", "rejected",
                                 [NoCall EXCEPT !.readExist = readExist,
                                                !.explicit = messagesToMark.kind], 0)
                /\ UNCHANGED <<inflight, nCalls, nOps>>
           ELSE LET notificationsToMark == getNotificationsToMark(messagesToMark,
                                               IF storeId \in DOMAIN heap[cur] THEN heap[cur]
                                               ELSE MapSet(heap[cur], storeId, <<>>), storeId)
                    notificationsToUpdate == filterReadNotifications(readExist, notificationsToMark)
                    c == [NoCall EXCEPT !.id = nCalls + 1, !.api = "markMessageAsSeen",
                                        !.origin = "markNotificationsAsSeen", !.awaited = TRUE,
                                        !.storeId = storeId, !.cap = cur,
                                        !.readExist = readExist,
                                        !.explicit = messagesToMark.kind,
                                        !.ids = MapIds(notificationsToUpdate)]
                IN  IF Len(notificationsToMark) # 0
                    THEN /\ CanStart
                         /\ inflight' = inflight \cup {c}
                         /\ nCalls' = nCalls + 1
                         /\ nOps' = nOps + 1
                         /\ last' = Event("markNotificationsAsSeen", storeId, "call", "pending", c, 0)
                    ELSE /\ last' = Event("markNotificationsAsSeen", storeId, "return", "resolved",
                                          [NoCall EXCEPT !.readExist = readExist,
                                                         !.explicit = messagesToMark.kind], 0)
                         /\ UNCHANGED <<inflight, nCalls, nOps>>
        /\ UNCHANGED <<heap, cur, page, hasNextPage, fetching, refetchTimeout, timers, nTimers>>
        /\ UNCHANGED repoVars

MarkNotificationsAsSeen ==
    \E readExist \in BOOLEAN, messagesToMark \in ExplicitMessages, storeId \in Stores :
        \* explicit messages come with the default store id, which is then not read
        /\ messagesToMark.kind # "undefined" => storeId = "default_store"
        /\ IF messagesToMark.kind = "undefined" /\ storeId \notin DOMAIN heap[cur]
           THEN \* notifications[storeId] is undefined: .filter throws a TypeError
                /\ last' = Event("markNotificationsAsSeen", storeId, "throw", "rejected",
                                 [NoCall EXCEPT !.readExist = readExist,
                                                !.explicit = messagesToMark.kind], 0)
                /\ UNCHANGED <<inflight, nCalls, nOps>>
           ELSE LET notificationsToMark == getNotificationsToMark(messagesToMark, heap[cur], storeId)
                    notificationsToUpdate == filterReadNotifications(readExist, notificationsToMark)
                    c == [NoCall EXCEPT !.id = nCalls + 1, !.api = "markMessageAsSeen",
                                        !.origin = "markNotificationsAsSeen", !.awaited = TRUE,
                                        !.storeId = storeId, !.cap = cur,
                                        !.readExist = readExist,
                                        !.explicit = messagesToMark.kind,
                                        !.ids = MapIds(notificationsToUpdate)]
                IN  IF Len(notificationsToMark) # 0
                    THEN /\ CanStart
                         /\ inflight' = inflight \cup {c}
                         /\ nCalls' = nCalls + 1
                         /\ nOps' = nOps + 1
                         /\ last' = Event("markNotificationsAsSeen", storeId, "call", "pending", c, 0)
                    ELSE /\ last' = Event("markNotificationsAsSeen", storeId, "return", "resolved",
                                          [NoCall EXCEPT !.readExist = readExist,
                                                         !.explicit = messagesToMark.kind], 0)
                         /\ UNCHANGED <<inflight, nCalls, nOps>>
        /\ UNCHANGED <<heap, cur, page, hasNextPage, fetching, refetchTimeout, timers, nTimers>>
        /\ UNCHANGED repoVars

MarkNotificationsAsSeenDone ==
    \E c \in inflight :
        /\ c.api = "markMessageAsSeen"
        /\ \/ RemoteResolvedOnly(c)
           \/ RemoteRejected(c)
        /\ UNCHANGED repoVars

\* ====================================================== NotificationRepository
\* ------------------------------------------------------------------ calendar
\* Dates are [y, m, d] records; instants are counted in days since 2022-01-01.
IsLeapYear(y) == (y % 4 = 0 /\ y % 100 # 0) \/ y % 400 = 0
DaysInMonth(y, m) ==
    IF m = 2 THEN (IF IsLeapYear(y) THEN 29 ELSE 28)
    ELSE IF m \in {4, 6, 9, 11} THEN 30 ELSE 31
RECURSIVE DaysBeforeMonth(_, _)
DaysBeforeMonth(y, m) == IF m = 1 THEN 0 ELSE DaysBeforeMonth(y, m - 1) + DaysInMonth(y, m - 1)
RECURSIVE DaysBeforeYear(_)
DaysBeforeYear(y) ==
    IF y <= 2022 THEN 0
    ELSE DaysBeforeYear(y - 1) + (IF IsLeapYear(y - 1) THEN 366 ELSE 365)
DayNumber(date) == DaysBeforeYear(date.y) + DaysBeforeMonth(date.y, date.m) + date.d - 1

\* date-fns addMonths(date, -amount): the same day of the month `amount` months
\* earlier, or that month's last day when it has no such day
subMonths(date, amount) ==
    LET index == (date.y * 12 + (date.m - 1)) - amount
        y     == index \div 12
        m     == (index % 12) + 1
        dim   == DaysInMonth(y, m)
    IN  [y |-> y, m |-> m, d |-> IF date.d >= dim THEN dim ELSE date.d]
subYears(date, amount) == subMonths(date, amount * 12)
\* date-fns subWeeks(date, amount) = addDays(date, -7 * amount), as a day number
subWeeks(date, amount) == DayNumber(date) - 7 * amount

\* the values Date.now() takes: none earlier than a record's creation
NowDates == {[y |-> 2024, m |-> 3, d |-> 1],
             [y |-> 2024, m |-> 3, d |-> 2],
             [y |-> 2024, m |-> 3, d |-> 31]}
\* the day the latest record was created
T == DayNumber([y |-> 2024, m |-> 3, d |-> 1])

\* --------------------------------------------------------------- collections
Environments == {"E1", "E2"}
Organizations == {"O1", "O2"}

\* the job collection: _id, environment and step type
Jobs == {[_id |-> "j1", _environmentId |-> "E1", type |-> "trigger"],
         [_id |-> "j2", _environmentId |-> "E1", type |-> "email"],
         [_id |-> "j3", _environmentId |-> "E2", type |-> "email"]}

Doc(id, env, org, sub, tmpl, txn, channels, createdAt, jobs) ==
    [_id |-> id, _environmentId |-> env, _organizationId |-> org,
     _subscriberId |-> sub, _templateId |-> tmpl, transactionId |-> txn,
     channels |-> channels, createdAt |-> createdAt, jobs |-> jobs]

\* the notification records the collection may hold
DocPool ==
    {Doc("n1", "E1", "O1", "s1", "t1", "x1", <<"email">>,        T - 8,   {"j1", "j2"}),
     Doc("n2", "E1", "O1", "s2", "t2", "x2", <<"sms", "email">>, T - 40,  {"j2", "j3"}),
     Doc("n3", "E1", "O1", "s1", "t1", "x1", <<>>,               T - 400, {}),
     Doc("n4", "E1", "O1", "s2", "t1", "x2", <<"email">>,        T - 7,   {"j2"}),
     Doc("n5", "E1", "O1", "s1", "t2", "x1", <<"sms">>,          T - 29,  {}),
     Doc("n6", "E1", "O1", "s2", "t2", "x2", <<"sms">>,          T - 366, {}),
     Doc("n7", "E1", "O1", "s1", "t1", "x1", <<"email">>,        T - 8,   {}),
     Doc("n8", "E2", "O2", "s1", "t1", "x1", <<"email">>,        T - 8,   {"j2", "j3"}),
     Doc("n9", "E2", "O2", "s2", "t2", "x2", <<"sms">>,          T,       {"j1"})}

MaxDocs == 3        \* records in the collection

\* an optional argument: undefined, null or a value
Undefined == [kind |-> "undefined", v |-> <<>>]
Null      == [kind |-> "null", v |-> <<>>]
Value(v)  == [kind |-> "value", v |-> v]
\* JS truthiness of an optional array (an array, even empty, is truthy)
TruthyArray(o) == o.kind = "value"
\* JS truthiness of an optional string (the empty string is falsy)
TruthyString(o) == o.kind = "value" /\ o.v # ""

ChannelOptions     == {Undefined, Null, Value(<<>>), Value(<<"email">>)}
TemplateOptions    == {Undefined, Value(<<>>), Value(<<"t1">>)}
SubscriberOptions  == {Undefined, Value(<<>>), Value(<<"s1">>)}
TransactionOptions == {[kind |-> "undefined", v |-> ""], [kind |-> "value", v |-> ""],
                       [kind |-> "value", v |-> "x1"]}
Skips  == {0, 1}
Limits == {1, 10}

\* a filter field of requestQuery: absent, or present with its operand
Absent     == [on |-> FALSE, v |-> <<>>]
Present(v) == [on |-> TRUE, v |-> v]

\* the requestQuery getFeed builds
FeedRequestQuery(environmentId, query) ==
    [_environmentId |-> environmentId,
     transactionId  |-> IF TruthyString(query.transactionId)
                        THEN Present(<<query.transactionId.v>>) ELSE Absent,
     _templateId    |-> IF TruthyArray(query.templates)
                        THEN Present(query.templates.v) ELSE Absent,
     _subscriberId  |-> IF TruthyArray(query.subscriberIds) /\ Len(query.subscriberIds.v) > 0
                        THEN Present(query.subscriberIds.v) ELSE Absent,
     channels       |-> IF TruthyArray(query.channels)
                        THEN Present(query.channels.v) ELSE Absent]

\* mutant: the filter is built without its _environmentId
MatchesFeed_AnyEnvironment(doc, rq) ==
    /\ rq.transactionId.on => doc.transactionId = rq.transactionId.v[1]
    /\ rq._templateId.on   => doc._templateId \in Range(rq._templateId.v)
    /\ rq._subscriberId.on => doc._subscriberId \in Range(rq._subscriberId.v)
    /\ rq.channels.on      => Range(doc.channels) \cap Range(rq.channels.v) # {}

\* whether a record matches a requestQuery (equality, $in on a scalar field,
\* $in on an array field: some element is listed)
MatchesFeed(doc, rq) ==
    /\ doc._environmentId = rq._environmentId
    /\ rq.transactionId.on => doc.transactionId = rq.transactionId.v[1]
    /\ rq._templateId.on   => doc._templateId \in Range(rq._templateId.v)
    /\ rq._subscriberId.on => doc._subscriberId \in Range(rq._subscriberId.v)
    /\ rq.channels.on      => Range(doc.channels) \cap Range(rq.channels.v) # {}

\* populate('jobs') with its match: the record's jobs of the environment that
\* are not trigger steps
PopulateFeed(doc, environmentId) ==
    [doc EXCEPT !.jobs = {j \in Jobs : /\ j._id \in doc.jobs
                                       /\ j._environmentId = environmentId
                                       /\ j.type \notin {"trigger"}}]

\* the orders sort('-createdAt') may give a set of records
NewestFirst(S) ==
    {q \in [1..Cardinality(S) -> S] :
        /\ \A i, j \in 1..Cardinality(S) : i # j => q[i] # q[j]
        /\ \A i, j \in 1..Cardinality(S) : i < j => q[i].createdAt >= q[j].createdAt}

\* skip(skip).limit(limit) of a sorted list
SkipLimit(q, skip, limit) ==
    [i \in 1..(IF Len(q) - skip < 0 THEN 0
               ELSE IF Len(q) - skip < limit THEN Len(q) - skip ELSE limit) |-> q[skip + i]]

InitCollection ==
    /\ InitClient
    /\ db \in {S \in SUBSET DocPool : Cardinality(S) <= MaxDocs}
    /\ result = NoResult
    /\ feed = 0

\* No query changes the collection, so a behaviour is one query on one collection.
Idle == result = NoResult

GetFeed ==
    /\ Idle
    /\ \E environmentId \in Environments, channels \in ChannelOptions,
       templates \in TemplateOptions, subscriberIds \in SubscriberOptions,
       transactionId \in TransactionOptions, skip \in Skips, limit \in Limits :
        LET query == [channels |-> channels, templates |-> templates,
                      subscriberIds |-> subscriberIds, transactionId |-> transactionId]
            requestQuery == FeedRequestQuery(environmentId, query)
            matching == {doc \in db : MatchesFeed(doc, requestQuery)}
        IN  \E sorted \in NewestFirst(matching) :
                LET response == SkipLimit(sorted, skip, limit)
                IN  /\ result' = [op |-> "getFeed", environmentId |-> environmentId,
                                  query |-> query, skip |-> skip, limit |-> limit,
                                  totalCount |-> Cardinality(matching),
                                  data |-> [i \in DOMAIN response |->
                                               PopulateFeed(response[i], environmentId)]]
                    /\ UNCHANGED <<db, feed>>
                    /\ UNCHANGED clientVars

GetFeedItem ==
    /\ Idle
    /\ \E notificationId \in {d._id : d \in DocPool}, environmentId \in Environments,
       organizationId \in Organizations :
        LET found == {doc \in db : /\ doc._id = notificationId
                                   /\ doc._environmentId = environmentId
                                   /\ doc._organizationId = organizationId}
        IN  /\ result' = [op |-> "getFeedItem", environmentId |-> environmentId,
                          organizationId |-> organizationId, notificationId |-> notificationId,
                          data |-> {PopulateFeed(doc, environmentId) : doc \in found}]
            /\ UNCHANGED <<db, feed>>
            /\ UNCHANGED clientVars

FindBySubscriberId ==
    /\ Idle
    /\ \E environmentId \in Environments, subscriberId \in {"s1", "s2"} :
        /\ result' = [op |-> "findBySubscriberId", environmentId |-> environmentId,
                      subscriberId |-> subscriberId,
                      data |-> {doc \in db : /\ doc._environmentId = environmentId
                                             /\ doc._subscriberId = subscriberId}]
        /\ UNCHANGED <<db, feed>>
        /\ UNCHANGED clientVars

\* ----------------------------------------------------- getActivityGraphStats
\* the dates callers ask the activity since, as day numbers
SinceDates == {T - 400, T - 30, T - 8, T}

\* $sort: { _id: -1 } of the groups' keys ('%Y-%m-%d' strings order as their days do)
RECURSIVE Descending(_)
Descending(S) ==
    IF S = {} THEN <<>>
    ELSE LET top == CHOOSE x \in S : \A y \in S : y <= x
         IN  <<top>> \o Descending(S \ {top})

ActivityGraphStats(date, environmentId) ==
    LET matched == {doc \in db : /\ doc.createdAt >= date
                                 /\ doc._environmentId = environmentId}
        \* $unwind: one document per element of a record's channels (a record
        \* whose channels are empty gives none)
        unwound == UNION {{[doc |-> doc, channel |-> doc.channels[k]]
                              : k \in DOMAIN doc.channels} : doc \in matched}
        days    == Descending({u.doc.createdAt : u \in unwound})
    IN  [i \in DOMAIN days |->
            LET group == {u \in unwound : u.doc.createdAt = days[i]}
            IN  [_id       |-> days[i],
                 count     |-> Cardinality(group),
                 templates |-> {u.doc._templateId : u \in group},
                 channels  |-> {u.channel : u \in group}]]

GetActivityGraphStats ==
    /\ Idle
    /\ \E date \in SinceDates, environmentId \in Environments :
        /\ result' = [op |-> "getActivityGraphStats", environmentId |-> environmentId,
                      date |-> date, rows |-> ActivityGraphStats(date, environmentId)]
        /\ UNCHANGED <<db, feed>>
        /\ UNCHANGED clientVars

\* ------------------------------------------------------------------ getStats
\* $sum of a $cond over the records that passed $match
SumIf(S, P(_)) == Cardinality({doc \in S : P(doc)})

\* mutant: the $match stage lacks the one-year window
StatsOf_NoWindow(environmentId, now) ==
    LET monthBefore == DayNumber(subMonths(now, 1))
        weekBefore  == subWeeks(now, 1)
        matched == {doc \in db : doc._environmentId = environmentId}
        InWeek(doc)  == doc.createdAt >= weekBefore
        InMonth(doc) == doc.createdAt >= monthBefore
    IN  [weekly  |-> SumIf(matched, InWeek),
         monthly |-> SumIf(matched, InMonth),
         yearly  |-> Cardinality(matched)]

StatsOf(environmentId, now) ==
    LET yearBefore  == DayNumber(subYears(now, 1))
        monthBefore == DayNumber(subMonths(now, 1))
        weekBefore  == subWeeks(now, 1)
        matched == {doc \in db : /\ doc._environmentId = environmentId
                                 /\ doc.createdAt >= yearBefore}
        InWeek(doc)  == doc.createdAt >= weekBefore
        InMonth(doc) == doc.createdAt >= monthBefore
        Always(doc)  == TRUE
    IN  \* an empty $match gives no group: result[0] is undefined and every count is 0
        IF matched = {} THEN [weekly |-> 0, monthly |-> 0, yearly |-> 0]
        ELSE [weekly  |-> SumIf(matched, InWeek),
              monthly |-> SumIf(matched, InMonth),
              yearly  |-> SumIf(matched, Always)]

GetStats ==
    /\ Idle
    /\ \E environmentId \in Environments, now \in NowDates :
        /\ result' = [op |-> "getStats", environmentId |-> environmentId, now |-> now,
                      stats |-> StatsOf(environmentId, now)]
        /\ UNCHANGED <<db, feed>>
        /\ UNCHANGED clientVars

NextRepo ==
    \/ GetFeed
    \/ GetFeedItem
    \/ FindBySubscriberId
    \/ GetActivityGraphStats
    \/ GetStats

SpecRepo == InitCollection /\ [][NextRepo]_vars

Init == InitClient /\ InitRepo

Next ==
    \/ FetchNextPage
    \/ FetchPageDone
    \/ Refetch
    \/ TimerFire
    \/ MarkAsRead
    \/ MarkAsReadDone
    \/ UpdateAction
    \/ UpdateActionDone
    \/ MarkNotificationsAsSeen
    \/ MarkNotificationsAsSeenDone

Spec == Init /\ [][Next]_vars

\* ------------------------------------------------- an unchanging remote feed
\* the lengths of the subscriber's feed: empty, short, whole pages, a tail
FeedSizes == {0, 3, 10, 13, 20, 30}

\* the length of page p (from 0) of a feed of n messages read PageSize at a time
PageLength(n, p) ==
    IF n - p * PageSize <= 0 THEN 0
    ELSE IF n - p * PageSize < PageSize THEN n - p * PageSize ELSE PageSize

InitFeed ==
    /\ InitClient
    /\ db = {}
    /\ result = NoResult
    /\ feed \in FeedSizes

\* getNotificationsList answers with the page asked for, of the unchanged feed
FetchPageAnswered ==
    \E c \in inflight :
        /\ c.api = "getNotificationsList"
        /\ FetchPageResolved(c, PageLength(feed, c.pageToFetch))
        /\ UNCHANGED repoVars

NextFeed ==
    \/ FetchNextPage
    \/ Refetch
    \/ TimerFire
    \/ FetchPageAnswered

SpecFeed == InitFeed /\ [][NextFeed]_vars

\* a caller that keeps calling fetchNextPage, every remote call being answered
NextPaging ==
    \/ FetchNextPage
    \/ FetchPageAnswered

SpecPaging ==
    InitFeed /\ [][NextPaging]_vars /\ WF_vars(FetchNextPage) /\ WF_vars(FetchPageAnswered)

\* the runtime runs the callback of every timer that is set and not cleared
SpecTimers == Spec /\ WF_vars(TimerFire)

\* ======================================================================= claims
\* the step is a call of fetchNextPage(s): it returned at once or went on to fetch
FetchNextPageStep(s) ==
    /\ last'.op = "fetchNextPage"
    /\ last'.storeId = s
    /\ last'.step \in {"return", "call"}
    /\ last' # last

\* the step is the answer to a getNotificationsList call, n messages long
FetchAnswered(ev) == ev.step = "ok" /\ ev.call.api = "getNotificationsList"

\* C1: once a fetchPage for a store completes with fewer than 10 items, has-more
\* for that store is false; and as long as has-more of a store is false,
\* fetchNextPage on that store is a no-op: it issues no remote call and leaves
\* the store's page counter and message list (and all other state) unchanged.
C1_ShortPageEndsPaging ==
    [][ /\ (FetchAnswered(last') /\ last' # last /\ last'.n < PageSize)
            => /\ last'.storeId \in DOMAIN hasNextPage'
               /\ hasNextPage'[last'.storeId] = FALSE
        /\ \A s \in Stores :
            (s \in DOMAIN hasNextPage /\ hasNextPage[s] = FALSE /\ FetchNextPageStep(s))
                => /\ inflight' = inflight
                   /\ nCalls' = nCalls
                   /\ page' = page
                   /\ hasNextPage' = hasNextPage
                   /\ cur' = cur
                   /\ heap' = heap
                   /\ last'.step = "return" ]_vars

\* C1 witness: a short page (3 items) was appended to the default store, has-more
\* is false, and the latest step was a fetchNextPage on it that returned at once.
C1_Witness ==
    /\ last.op = "fetchNextPage" /\ last.step = "return" /\ last.storeId = "default_store"
    /\ "default_store" \in DOMAIN hasNextPage /\ hasNextPage["default_store"] = FALSE
    /\ Len(heap[cur]["default_store"]) = 3
    /\ page["default_store"] = 1
    /\ inflight = {}

\* the timers of a store that are set and have neither fired nor been cleared
PendingTimers(tms, s) == {t \in tms : t.storeId = s}

\* C2: a refetch made while the store's earlier timer is still pending cancels
\* that timer and issues no fetch itself; a store never has two pending timers;
\* only a store's latest timer fires, and its firing issues exactly one
\* getNotificationsList call, for page 0 of that store.  Two refetch calls
\* within the delay therefore give exactly one fetch.
C2_RefetchDebounced ==
    [][ \A s \in Stores :
          /\ Cardinality(PendingTimers(timers', s)) <= 1
          /\ (last'.op = "refetch" /\ last'.step = "return" /\ last'.storeId = s
                /\ nTimers' = nTimers + 1 /\ PendingTimers(timers, s) # {})
                => /\ PendingTimers(timers', s) \cap timers = {}
                   /\ \E t \in timers' : /\ PendingTimers(timers', s) = {t}
                                         /\ t.handle = refetchTimeout'[s]
                   /\ inflight' = inflight
                   /\ nCalls' = nCalls
          /\ (last'.step = "fire" /\ last'.storeId = s /\ nCalls' = nCalls + 1)
                => \E t \in timers :
                      /\ t.storeId = s
                      /\ t.handle = refetchTimeout[s]
                      /\ timers' = timers \ {t}
                      /\ \E c \in inflight' :
                            /\ inflight' = inflight \cup {c}
                            /\ c \notin inflight
                            /\ c.api = "getNotificationsList"
                            /\ c.pageToFetch = 0 /\ c.isRefetch /\ c.storeId = s ]_vars

\* C2 witness: refetch was called twice for the default store and for no other,
\* one timer has fired and none is pending, and one remote call has been made
\* in all: the page-0 fetch of the second timer.
C2_Witness ==
    /\ nTimers = 2 /\ nOps = 2
    /\ DOMAIN refetchTimeout = {"default_store"}
    /\ refetchTimeout["default_store"] = 2
    /\ timers = {}
    /\ nCalls = 1
    /\ last.op = "refetch" /\ last.step = "fire"
    /\ last.call.pageToFetch = 0 /\ last.call.storeId = "default_store"

\* the messages of a `notifications` object, store by store
Messages(obj) == UNION {Range(obj[s]) : s \in DOMAIN obj}

\* the step is the successful end of updateAction
UpdateActionSucceeded == last'.op = "updateAction" /\ last'.step = "ok" /\ last' # last

\* C3 (as claimed): after a successful updateAction on message id M the message
\* with id M has action status "done" in every store whose list contains it,
\* every other message keeps its action status, seen and read, and the stores'
\* lists keep their members and order.
C3_UpdateActionFrame ==
    [][ UpdateActionSucceeded =>
          LET M     == last'.call.messageId
              before == heap[cur]
              after  == heap'[cur']
          IN  /\ \A m \in Messages(after) : m._id = M => m.status = DONE
              /\ DOMAIN after = DOMAIN before
              /\ \A s \in DOMAIN before :
                    /\ Len(after[s]) = Len(before[s])
                    /\ \A i \in DOMAIN before[s] :
                          /\ after[s][i].oid = before[s][i].oid
                          /\ after[s][i]._id = before[s][i]._id
                          /\ after[s][i].seen = before[s][i].seen
                          /\ after[s][i].read = before[s][i].read
                          /\ before[s][i]._id # M => after[s][i].status = before[s][i].status ]_vars

\* how often id x occurs in a list of ids
Occurrences(ids, x) == Cardinality({k \in DOMAIN ids : ids[k] = x})

\* C4: markNotificationsAsSeen called with no explicit messages sends to the
\* remote mark-seen call exactly the ids of the store's messages whose seen flag
\* is false, restricted when readExist is true to those whose read field is
\* defined: every such message's id is sent, once per message, and no other id.
\* When the store has unseen messages the call is made.
C4_MarkSeenSendsUnseen ==
    (last.op = "markNotificationsAsSeen" /\ last.call.explicit = "undefined"
        /\ last.step \in {"call", "return"})
    => LET list   == heap[cur][last.storeId]
           unseen == {i \in DOMAIN list : list[i].seen = FALSE}
           wanted == {i \in unseen : last.call.readExist => list[i].read # "undefined"}
       IN  IF last.step = "call"
           THEN /\ last.call \in inflight
                /\ last.call.api = "markMessageAsSeen"
                /\ Len(last.call.ids) = Cardinality(wanted)
                /\ \A x \in MessageIds :
                      Occurrences(last.call.ids, x)
                          = Cardinality({i \in wanted : list[i]._id = x})
           ELSE unseen = {}

\* C4 witness: a mark-seen call with readExist on a store that holds seen and
\* unseen messages, some unseen ones without a read field: the ids sent are a
\* proper, non-empty part of the unseen messages' ids.
C4_Witness ==
    /\ last.op = "markNotificationsAsSeen" /\ last.step = "call"
    /\ last.call.explicit = "undefined" /\ last.call.readExist
    /\ LET list == heap[cur][last.storeId]
       IN  /\ \E i \in DOMAIN list : list[i].seen
           /\ \E i \in DOMAIN list : ~list[i].seen /\ list[i].read = "undefined"
           /\ \E i \in DOMAIN list : ~list[i].seen /\ list[i].read # "undefined"
           /\ Len(last.call.ids) > 0

\* the records of the collection that belong to environment E
InEnvironment(E) == {doc \in db : doc._environmentId = E}

\* C5: getFeed(E, ...) returns only records of environment E (with only jobs of
\* E attached) and its totalCount counts no record of another environment, for
\* every combination of filters, skip and limit; getFeedItem and
\* findBySubscriberId return only records of the environment they were given.
C5_TenantIsolation ==
    /\ result.op = "getFeed" =>
          /\ \A i \in DOMAIN result.data :
                /\ result.data[i]._environmentId = result.environmentId
                /\ \E doc \in InEnvironment(result.environmentId) : doc._id = result.data[i]._id
                /\ \A j \in result.data[i].jobs : j._environmentId = result.environmentId
          /\ result.totalCount <= Cardinality(InEnvironment(result.environmentId))
          /\ Len(result.data) <= result.totalCount
    /\ result.op = "getFeedItem" =>
          \A doc \in result.data :
                /\ doc._environmentId = result.environmentId
                /\ doc._organizationId = result.organizationId
                /\ \A j \in doc.jobs : j._environmentId = result.environmentId
    /\ result.op = "findBySubscriberId" =>
          \A doc \in result.data : doc._environmentId = result.environmentId

\* C5 witness: getFeed returned a record of its environment while the collection
\* holds a record of another environment with the same subscriber, template,
\* transaction id and channels, which every filter of the query lets through.
C5_Witness ==
    /\ result.op = "getFeed"
    /\ Len(result.data) >= 1
    /\ \E doc \in db :
          /\ doc._environmentId # result.environmentId
          /\ doc._subscriberId = result.data[1]._subscriberId
          /\ doc._templateId = result.data[1]._templateId
          /\ doc.transactionId = result.data[1].transactionId
          /\ doc.channels = result.data[1].channels
          /\ MatchesFeed(doc, [FeedRequestQuery(result.environmentId, result.query)
                                  EXCEPT !._environmentId = doc._environmentId])

\* how many days before `now` a record was created
AgeDays(doc, now) == DayNumber(now) - doc.createdAt

\* C10: getStats(E) returns weekly, monthly and yearly = the numbers of records
\* of E created within the last week, the last (calendar) month and the last
\* (calendar) year; a record older than a year is counted nowhere and no record
\* gives 0/0/0; so weekly <= monthly <= yearly, and records created 8, 40 and
\* 400 days ago give weekly 0, monthly 1, yearly 2.
C10_Stats ==
    result.op = "getStats" =>
        LET now   == result.now
            docs  == InEnvironment(result.environmentId)
            month == DayNumber(now) - DayNumber(subMonths(now, 1))
            year  == DayNumber(now) - DayNumber(subYears(now, 1))
            st    == result.stats
        IN  /\ st.weekly  = Cardinality({doc \in docs : AgeDays(doc, now) <= 7})
            /\ st.monthly = Cardinality({doc \in docs : AgeDays(doc, now) <= month})
            /\ st.yearly  = Cardinality({doc \in docs : AgeDays(doc, now) <= year})
            /\ month \in 28..31 /\ year \in 365..366
            /\ st.weekly <= st.monthly /\ st.monthly <= st.yearly
            /\ docs = {} => st = [weekly |-> 0, monthly |-> 0, yearly |-> 0]
            /\ (Cardinality(docs) = 3 /\ {AgeDays(doc, now) : doc \in docs} = {8, 40, 400})
                  => st = [weekly |-> 0, monthly |-> 1, yearly |-> 2]

\* C10 witness: getStats ran on an environment whose records were created 8, 40
\* and 400 days before, and answered 0 / 1 / 2.
C10_Witness ==
    /\ result.op = "getStats"
    /\ Cardinality(InEnvironment(result.environmentId)) = 3
    /\ {AgeDays(doc, result.now) : doc \in InEnvironment(result.environmentId)} = {8, 40, 400}
    /\ result.stats = [weekly |-> 0, monthly |-> 1, yearly |-> 2]

\* a store's entry in a Map: empty when the key is missing
Entry(m, s) == IF s \in DOMAIN m THEN <<m[s]>> ELSE <<>>

\* C6 (as claimed): a store's page number and has-more flag are only advanced
\* after a successful fetch: no step of fetchNextPage or refetch other than the
\* successful answer of the remote call changes them, so that after a failed
\* remote call they are as they were before the operation was called.
C6_AdvancedOnlyAfterSuccess ==
    [][ \A s \in Stores :
          (/\ last' # last
           /\ last'.op \in {"fetchNextPage", "refetch"}
           /\ last'.storeId = s
           /\ last'.step \in {"call", "return", "fire", "fail"})
          => /\ Entry(page', s) = Entry(page, s)
             /\ Entry(hasNextPage', s) = Entry(hasNextPage, s) ]_vars

\* C7 (as claimed): fetchNextPage on a store id that has no entries yet is not a
\* no-op: it fetches page 1 for it.
C7_UnseenStoreFetchesPageOne ==
    (/\ last.op = "fetchNextPage"
     /\ last.step \in {"call", "return"}
     /\ last.storeId \notin DOMAIN hasNextPage)
    => /\ last.step = "call"
       /\ last.call.pageToFetch = 1

\* C7 (amended): fetchNextPage on a store id without an entry in the has-more
\* map is a no-op: it returns at once, issues no remote call and changes no
\* state.  Only the initial default store starts at page 0 with has-more true:
\* a first fetchNextPage on it fetches page 1.
C7_UnseenStoreIsNoOp ==
    [][ /\ \A s \in Stores :
            (FetchNextPageStep(s) /\ s \notin DOMAIN hasNextPage)
                => /\ last'.step = "return"
                   /\ last'.call = NoCall
                   /\ UNCHANGED <<heap, cur, page, hasNextPage, fetching, refetchTimeout,
                                  timers, inflight, nCalls, nTimers, nOps>>
        /\ (FetchNextPageStep("default_store") /\ nOps = 0)
                => /\ last'.step = "call"
                   /\ last'.call \in inflight'
                   /\ last'.call.pageToFetch = 1
                   /\ page'["default_store"] = 1 ]_vars

\* C7 witness: fetchNextPage was called on feed_a before any remote call was
\* made, and returned at once; feed_a still has no entry.
C7_Witness ==
    /\ last.op = "fetchNextPage" /\ last.step = "return" /\ last.storeId = "feed_a"
    /\ "feed_a" \notin DOMAIN hasNextPage
    /\ "feed_a" \notin DOMAIN page
    /\ nCalls = 0 /\ inflight = {}

C9_FailureRejectsCaller ==
    last.step = "fail" => last.promise = "rejected"

\* The extent of C9's failure: a failed remote call is never retried, and it
\* rejects the operation to its caller for fetchNextPage, markAsRead,
\* updateAction and markNotificationsAsSeen.  refetch has resolved when it set
\* its timer: the failure of the fetch the timer makes is lost to its caller.
FailureNotRetried ==
    [][ (last'.step = "fail" /\ last' # last)
          => LET c == last'.call
             IN  /\ c \in inflight
                 /\ inflight' = inflight \ {c}
                 /\ nCalls' = nCalls
                 /\ timers' = timers
                 /\ c.origin \in {"fetchNextPage", "markAsRead", "updateAction",
                                  "markNotificationsAsSeen"} => last'.promise = "rejected"
                 /\ c.origin = "refetch" => last'.promise = "resolved" ]_vars

\* The failing case of C9: the fetch made by a refetch timer failed; nothing is
\* in flight or pending and no further call was made.
RefetchFailureLost ==
    /\ last.step = "fail" /\ last.call.origin = "refetch" /\ last.promise = "resolved"
    /\ inflight = {} /\ timers = {}
    /\ nCalls = 1

\* the records of environment E created on `day`, at or after `since`
CreatedOn(E, since, day) ==
    {doc \in InEnvironment(E) : doc.createdAt = day /\ doc.createdAt >= since}

\* C11 (as claimed): getActivityGraphStats(sinceDate, E) returns, for each
\* calendar day, a count equal to the number of records of E created on that
\* day at or after sinceDate, whatever the number of channels of each record:
\* every day with such a record has one row, and every row's count is the
\* number of that day's records.
C11_CountsRecordsPerDay ==
    result.op = "getActivityGraphStats" =>
        LET E     == result.environmentId
            since == result.date
            days  == {doc.createdAt : doc \in {d \in InEnvironment(E) : d.createdAt >= since}}
        IN  /\ {result.rows[i]._id : i \in DOMAIN result.rows} = days
            /\ \A i \in DOMAIN result.rows :
                  result.rows[i].count = Cardinality(CreatedOn(E, since, result.rows[i]._id))

\* a filter field was supplied: it is neither undefined nor null
Supplied(o) == o.kind = "value"

\* the records a getFeed(E, query) is to match when each supplied field
\* constrains the result and each absent field does not
FeedOf(E, query) ==
    {doc \in InEnvironment(E) :
        /\ Supplied(query.channels) =>
              Range(doc.channels) \cap Range(query.channels.v) # {}
        /\ Supplied(query.templates) => doc._templateId \in Range(query.templates.v)
        /\ Supplied(query.subscriberIds) =>
              doc._subscriberId \in Range(query.subscriberIds.v)
        /\ Supplied(query.transactionId) => doc.transactionId = query.transactionId.v}

\* C12 (as claimed): getFeed constrains the result by exactly the filter fields
\* that are supplied: the records matched (counted by totalCount, and paged
\* into data) are those of the environment that satisfy each supplied field of
\* channels (some listed channel), templates, subscriberIds (id in the list)
\* and transactionId (equal); an undefined or null field imposes no constraint,
\* and a list supplied empty is treated in the same way for every field.
C12_SuppliedFieldsConstrain ==
    result.op = "getFeed" =>
        LET wanted == FeedOf(result.environmentId, result.query)
        IN  /\ result.totalCount = Cardinality(wanted)
            /\ \A i \in DOMAIN result.data : \E doc \in wanted : doc._id = result.data[i]._id

\* the step is the successful end of a fetchPage
FetchPageSucceeded ==
    /\ last' # last
    /\ last'.step = "ok"
    /\ last'.call.api = "getNotificationsList"

\* a store's list in a notifications object: empty when the store has none
ListOf(obj, s) == IF s \in DOMAIN obj THEN obj[s] ELSE <<>>

\* C13 (as claimed): a successful fetchPage(p, isRefetch, S) with result R sets
\* store S's list to exactly R when isRefetch is true and to the previous list
\* of S followed by R when it is false, and leaves the lists, page counters and
\* has-more flags of every other store unchanged.
C13_FetchPageFrame ==
    [][ FetchPageSucceeded =>
          LET c      == last'.call
              S      == c.storeId
              R      == Response(c.id, c.pageToFetch, last'.n)
              before == heap[cur]
              after  == heap'[cur']
          IN  /\ ListOf(after, S) = IF c.isRefetch THEN R ELSE ListOf(before, S) \o R
              /\ \A s \in Stores \ {S} :
                    /\ (s \in DOMAIN after) = (s \in DOMAIN before)
                    /\ ListOf(after, s) = ListOf(before, s)
                    /\ Entry(page', s) = Entry(page, s)
                    /\ Entry(hasNextPage', s) = Entry(hasNextPage, s) ]_vars

\* the timer with handle h is pending for store s
TimerPending(s, h) == \E t \in timers : t.storeId = s /\ t.handle = h

\* C14: refetch timers are per store id.  A store never has two pending timers;
\* a refetch on one store leaves the pending timer and the timer handle of
\* every other store as they were; the timer that fires for a store is the one
\* its last refetch set, and its firing fetches page 0 of that store; and every
\* pending timer either fires or is replaced by a later refetch on its own
\* store, so that every chain of refetch calls ends with its last timer firing.
C14_TimersPerStore ==
    /\ [](\A s \in Stores : Cardinality(PendingTimers(timers, s)) <= 1)
    /\ [][ /\ (nTimers' = nTimers + 1) =>
                \A s \in Stores \ {last'.storeId} :
                    /\ PendingTimers(timers', s) = PendingTimers(timers, s)
                    /\ Entry(refetchTimeout', s) = Entry(refetchTimeout, s)
           /\ (last'.step = "fire" /\ nCalls' = nCalls + 1) =>
                \E t \in timers :
                    /\ timers' = timers \ {t}
                    /\ t.storeId = last'.storeId
                    /\ t.handle = refetchTimeout[t.storeId]
                    /\ last'.call \in inflight' \ inflight
                    /\ last'.call.api = "getNotificationsList"
                    /\ last'.call.storeId = t.storeId
                    /\ last'.call.pageToFetch = 0 /\ last'.call.isRefetch ]_vars
    /\ \A s \in Stores : \A h \in 1..MaxOps :
          TimerPending(s, h) ~>
              (~TimerPending(s, h) /\ (Entry(refetchTimeout, s) # <<h>> \/ last.step = "fire"))
    /\ <>[](timers = {})

\* C14 witness: refetch ran on the default store, on another store and on the
\* default store again; the default store's last timer has fired while the other
\* store's timer, untouched by the two later steps, is still pending.
C14_Witness ==
    /\ nTimers = 3
    /\ refetchTimeout = [s \in Stores |-> IF s = "default_store" THEN 3 ELSE 2]
    /\ \A t \in timers : t.storeId = "feed_a" /\ t.handle = 2
    /\ timers # {}
    /\ last.op = "refetch" /\ last.step = "fire" /\ last.storeId = "default_store"
    /\ nCalls = 1

\* the step is the failure of updateAction's remote call
UpdateActionFailed ==
    /\ last' # last
    /\ last'.step = "fail"
    /\ last'.call.api = "updateAction"

\* C15: the local patch of updateAction happens only after the remote call
\* succeeds: when the remote updateAction call fails, no message of any store
\* (in the current notifications and in every object still held) has its
\* action status changed, the notifications state is not replaced, and the
\* operation is rejected.
C15_FailedUpdateActionPatchesNothing ==
    [][ UpdateActionFailed =>
          /\ last'.promise = "rejected"
          /\ cur' = cur
          /\ \A v \in DOMAIN heap' : v \in DOMAIN heap /\ heap'[v] = heap[v]
          /\ \A m \in Messages(heap'[cur']) : \E b \in Messages(heap[cur]) :
                m.oid = b.oid /\ m.status = b.status ]_vars

\* C15 witness: updateAction failed on a message id that a store holds, and the
\* message is still pending.
C15_Witness ==
    /\ last.step = "fail" /\ last.call.api = "updateAction"
    /\ last.promise = "rejected"
    /\ \E m \in Messages(heap[cur]) : m._id = last.call.messageId /\ m.status = "pending"

\* the step is a call of markNotificationsAsSeen(readExist, undefined, s)
MarkSeenStep(s) ==
    /\ last'.op = "markNotificationsAsSeen"
    /\ last'.storeId = s
    /\ last'.step \in {"throw", "return", "call"}
    /\ last'.call.explicit = "undefined"
    /\ last' # last

\* C16 (as claimed): operating on an unknown store id fails:
\* markNotificationsAsSeen without explicit messages on a store that has no
\* entry in the notifications map ends in an error, with no remote call and no
\* state change, and fetchNextPage on a store that has no entry in the has-more
\* map fails as well.
C16_UnknownStoreFails ==
    [][ \A s \in Stores :
          /\ (MarkSeenStep(s) /\ s \notin DOMAIN heap[cur])
                => /\ last'.step = "throw" /\ last'.promise = "rejected"
                   /\ UNCHANGED <<heap, cur, page, hasNextPage, fetching, refetchTimeout,
                                  timers, inflight, nCalls, nTimers>>
          /\ (FetchNextPageStep(s) /\ s \notin DOMAIN hasNextPage)
                => last'.promise = "rejected" ]_vars

\* C16 (amended): markNotificationsAsSeen without explicit messages on a store
\* that has no entry in the notifications map ends in an error, with no remote
\* call and no state change; fetchNextPage on a store that has no entry in the
\* has-more map does not fail: it resolves, with no remote call either.
C16_UnknownStoreThrowsOrReturns ==
    [][ \A s \in Stores :
          /\ (MarkSeenStep(s) /\ s \notin DOMAIN heap[cur])
                => /\ last'.step = "throw" /\ last'.promise = "rejected"
                   /\ UNCHANGED <<heap, cur, page, hasNextPage, fetching, refetchTimeout,
                                  timers, inflight, nCalls, nTimers>>
          /\ (FetchNextPageStep(s) /\ s \notin DOMAIN hasNextPage)
                => /\ last'.promise = "resolved"
                   /\ UNCHANGED <<inflight, nCalls>> ]_vars

\* C16 witness: markNotificationsAsSeen without explicit messages was called on
\* feed_a, which has no list, and threw; no remote call was ever made.
C16_Witness ==
    /\ last.op = "markNotificationsAsSeen" /\ last.step = "throw"
    /\ last.storeId = "feed_a" /\ last.call.explicit = "undefined"
    /\ "feed_a" \notin DOMAIN heap[cur]
    /\ nCalls = 0 /\ inflight = {}

\* no fetch is in flight and no refetch timer is pending for store s
Quiet(s) ==
    /\ \A c \in inflight : ~(c.api = "getNotificationsList" /\ c.storeId = s)
    /\ \A t \in timers : t.storeId # s

\* the places in the remote feed of a list's messages
Places(list) == [i \in DOMAIN list |-> list[i].at]

\* the places of pages 0..k of a feed of n messages, in ascending order
RECURSIVE PagesUpTo(_, _)
PagesUpTo(n, k) ==
    IF k < 0 THEN <<>>
    ELSE PagesUpTo(n, k - 1) \o [i \in 1..PageLength(n, k) |-> k * PageSize + i]

\* C17 (as claimed): against an unchanging remote feed, after fetchNextPage and
\* refetch calls on a store (overlapping or not), once a fetch of the store has
\* completed and no fetch is in flight and no refetch timer is pending for it,
\* the store's list is pages 0..page[store] of the feed in ascending order,
\* none skipped, repeated or out of order.
C17_ListIsLoadedPages ==
    (/\ last.step = "ok"
     /\ last.call.api = "getNotificationsList"
     /\ Quiet(last.storeId))
    => Places(ListOf(heap[cur], last.storeId)) = PagesUpTo(feed, page[last.storeId])

\* C18 (as claimed): against an unchanging remote feed of any length, with
\* every remote call succeeding, a caller that keeps calling fetchNextPage on a
\* store reaches has-more = false (for a length that is a multiple of 10, by
\* one more fetch that returns an empty page), and from then on has-more stays
\* false and no further remote call is issued.
C18_PagingEnds ==
    /\ \A s \in Stores : <>(~GetTruthy(hasNextPage, s))
    /\ [][ \A s \in Stores :
              ~GetTruthy(hasNextPage, s)
                 => /\ ~GetTruthy(hasNextPage', s)
                    /\ \A c \in inflight' \ inflight : c.storeId # s ]_vars

\* some fetch is in flight or some refetch timer is pending, for any store
FetchOutstanding ==
    \/ \E c \in inflight : c.api = "getNotificationsList"
    \/ timers # {}

\* C19 (as claimed): the fetching flag is true exactly while some fetch is in
\* flight or some refetch timer is pending for any store: it is not false while
\* a fetch of another store is still in flight, and after every outcome of a
\* fetch or refetch, success or failure, it is false once nothing is in flight
\* or pending.
C19_FetchingTracksFetches ==
    fetching <=> FetchOutstanding
====
